---- MODULE Spec2Model ----
(***************************************************************************)
(* VisionBooth: the gesture-driven photo booth session of src/app.py.      *)
(*                                                                         *)
(* The web variant keeps one global dict, current_state, and serves two    *)
(* socket events on threads (SocketIO async_mode='threading'):             *)
(*   video_frame -> handle_video_frame, which runs process_state_machine   *)
(*                  and emits state_update, all under state_lock;          *)
(*   save_photo  -> handle_save_photo, which takes no lock.                *)
(* A step of the model is one Python statement that reads or writes        *)
(* current_state; statements that touch only locals are folded into the    *)
(* preceding step.  The interpreter may switch threads between any two     *)
(* statements.  Labels Lnnn are line numbers of src/app.py.                *)
(*                                                                         *)
(* Time is counted in clock units of 1/TicksPerSecond second, and every    *)
(* stored timestamp (countdown_end, the wake-up time of a sleeping thread) *)
(* is kept as an offset from the present instant: time.time() is the       *)
(* origin 0 and a clock tick moves every timestamp one unit towards the    *)
(* past.  The program uses a timestamp only through its difference with    *)
(* time.time(), so a timestamp already in the past stays at 0.  A frame    *)
(* tick (one handle_video_frame call) takes less than one clock unit, so   *)
(* the clock does not advance while the frame handler holds state_lock.    *)
(*                                                                         *)
(* current_state['detected_gesture'] is written at line 125 and never      *)
(* read; it is left out of the state.                                      *)
(***************************************************************************)
EXTENDS Integers, Sequences, FiniteSets, Bags, TLC

VARIABLES
    cs,            \* current_state, the session dict (app.py 46-58)
    state_lock,    \* TRUE while state_lock (app.py 59) is held
    vf,            \* the thread in handle_video_frame: pc and locals
    sv,            \* the threads in handle_save_photo: a bag of pc and locals
    state_update,  \* the state_update event emitted by the step just taken
    scen           \* what the program runs against: the caller's script
                   \* position (ScenarioSpec), the hand shown to the camera
                   \* (DetectSpec), the desktop variant's variables (BothSpec)

vars == <<cs, state_lock, vf, sv, state_update, scen>>

----------------------------------------------------------------------------
(* Bounds of the model *)

TicksPerSecond == 2     \* clock units per second
NumSavers == 1          \* save_photo events in service at once in Spec
OverlapSavers == 2      \* save_photo events in service at once in OverlapSpec
MaxStreak == 5          \* AWAIT_THUMBS_UP is fed frames while thumb_up_streak is below this


----------------------------------------------------------------------------
(* Program constants and values *)

None == -1              \* Python None in a numeric field
NoneStr == "None"       \* Python None in a string field

CONSECUTIVE_REQUIRED == 5
PHOTOS_PER_STRIP == 4

FingerGestures ==
    {"One Finger", "Peace Sign", "Three Fingers", "Four Fingers", "Open Palm"}
Gestures == FingerGestures \cup {"Thumbs Up", "Fist", NoneStr}

States ==
    {"PROMPT_TIMER", "DETECTING_FINGERS", "TIMER_SET", "AWAIT_THUMBS_UP",
     "COUNTDOWN", "CAPTURE_DONE", "STRIP_GENERATING"}

Images == {"img"}           \* data['image'] of a save_photo event
StripFile == "strip.png"    \* the name create_photo_strip returns

Max(a, b) == IF a >= b THEN a ELSE b

(* time.time(): the present instant is the origin of the clock *)
now == 0

(* the map with every count one too high *)
finger_count_map_shifted(g) ==
    CASE g = "One Finger"    -> 2
      [] g = "Peace Sign"    -> 3
      [] g = "Three Fingers" -> 4
      [] g = "Four Fingers"  -> 5
      [] g = "Open Palm"     -> 6
      [] OTHER               -> None

(* finger_count_map.get(gesture_name) *)
finger_count_map(g) ==
    CASE g = "One Finger"    -> 1
      [] g = "Peace Sign"    -> 2
      [] g = "Three Fingers" -> 3
      [] g = "Four Fingers"  -> 4
      [] g = "Open Palm"     -> 5
      [] OTHER               -> None

(* the initial value of current_state *)
current_state ==
    [state           |-> "PROMPT_TIMER",
     timer_value     |-> None,
     countdown_end   |-> None,
     last_count      |-> None,
     count_streak    |-> 0,
     thumb_up_streak |-> 0,
     fist_streak     |-> 0,
     capture_count   |-> 0,
     captured_images |-> << >>,
     strip_filename  |-> NoneStr]

(* a reset that clears the dict in place and leaves the list of images *)
reset_keeps_images ==
    [state           |-> "PROMPT_TIMER",
     timer_value     |-> None,
     countdown_end   |-> None,
     last_count      |-> None,
     count_streak    |-> 0,
     thumb_up_streak |-> 0,
     fist_streak     |-> 0,
     capture_count   |-> 0,
     captured_images |-> cs.captured_images,
     strip_filename  |-> NoneStr]

(* a reset that leaves the timer *)
reset_keeps_timer ==
    [state           |-> "PROMPT_TIMER",
     timer_value     |-> cs.timer_value,
     countdown_end   |-> None,
     last_count      |-> None,
     count_streak    |-> 0,
     thumb_up_streak |-> 0,
     fist_streak     |-> 0,
     capture_count   |-> 0,
     captured_images |-> << >>,
     strip_filename  |-> NoneStr]

(* reset_to_prompt(): rebinds current_state to a new dict *)
reset_to_prompt ==
    [state           |-> "PROMPT_TIMER",
     timer_value     |-> None,
     countdown_end   |-> None,
     last_count      |-> None,
     count_streak    |-> 0,
     thumb_up_streak |-> 0,
     fist_streak     |-> 0,
     capture_count   |-> 0,
     captured_images |-> << >>,
     strip_filename  |-> NoneStr]

(* int(round(x)) of x = r clock units, in seconds: Python rounds halves to
   the even neighbour *)
PyRound(r) ==
    LET q == r \div TicksPerSecond
        m == r % TicksPerSecond
    IN  IF 2 * m < TicksPerSecond THEN q
        ELSE IF 2 * m > TicksPerSecond THEN q + 1
        ELSE IF q % 2 = 0 THEN q ELSE q + 1

(* get_countdown() on dict c at time t *)
get_countdown(c, t) ==
    IF c.state = "COUNTDOWN" /\ c.countdown_end # None
    THEN Max(0, PyRound(c.countdown_end - t))
    ELSE None

(* the progress without the fist_streak branch *)
get_streak_progress_no_fist(c) ==
    IF c.state = "DETECTING_FINGERS"
    THEN <<c.count_streak, CONSECUTIVE_REQUIRED>>
    ELSE IF c.state = "AWAIT_THUMBS_UP" /\ c.thumb_up_streak > 0
    THEN <<c.thumb_up_streak, CONSECUTIVE_REQUIRED>>
    ELSE << >>

(* get_streak_progress() on dict c: << >> is None, else <<current, required>> *)
get_streak_progress(c) ==
    IF c.state = "DETECTING_FINGERS"
    THEN <<c.count_streak, CONSECUTIVE_REQUIRED>>
    ELSE IF c.state = "AWAIT_THUMBS_UP" /\ c.thumb_up_streak > 0
    THEN <<c.thumb_up_streak, CONSECUTIVE_REQUIRED>>
    ELSE IF c.state = "AWAIT_THUMBS_UP" /\ c.fist_streak > 0
    THEN <<c.fist_streak, CONSECUTIVE_REQUIRED>>
    ELSE << >>

(* the test of line 196 without the comparison with last_count *)
AnyCount(c, n) == 1 <= n /\ n <= 5

(* detected_count == current_state['last_count'] and 1 <= detected_count <= 5 *)
SameCount(c, n) == n = c.last_count /\ 1 <= n /\ n <= 5

(* the debounce test with > for >= *)
StreakExceeded(n) == n > CONSECUTIVE_REQUIRED

(* current_state[...] >= CONSECUTIVE_REQUIRED, the debounce test *)
StreakReached(n) == n >= CONSECUTIVE_REQUIRED

(* the quota test with > for >= *)
QuotaExceeded(c) == c.capture_count > PHOTOS_PER_STRIP

(* current_state['capture_count'] >= PHOTOS_PER_STRIP, the quota test *)
QuotaReached(c) == c.capture_count >= PHOTOS_PER_STRIP

(* no validation of timer_value *)
TimerUnchecked(c) == FALSE

(* timer_value is None or timer_value <= 0 *)
TimerInvalid(c) == c.timer_value = None \/ c.timer_value <= 0

(* a failed strip ends the handler at once *)
strip_failed_return == "idle"

(* where control goes when create_photo_strip returned None: photo_error is
   emitted (lines 343-345) and the handler goes on to the sleep of line 348 *)
strip_failed_next == "L348"

(* the duration of time.sleep(1), in clock units *)
SleepTicks == TicksPerSecond

----------------------------------------------------------------------------
(* Thread records *)

VfIdle == [pc |-> "idle", gesture |-> NoneStr, state |-> NoneStr,
           current_time |-> None]

NoUpdate ==
    [state |-> NoneStr, timer_value |-> None, countdown |-> None,
     streak_progress |-> << >>, trigger_capture |-> FALSE,
     capture_count |-> None]

NoScript == [g |-> NoneStr, k |-> 0]

Init ==
    /\ cs = current_state
    /\ state_lock = FALSE
    /\ vf = VfIdle
    /\ sv = EmptyBag
    /\ state_update = NoUpdate
    /\ scen = NoScript

----------------------------------------------------------------------------
(* handle_video_frame *)

(* the dispatch with a CAPTURE_DONE branch that resets the session, as the
   desktop loop has it *)
Dispatch_capture_resets(st, g) ==
    LET detected_count == finger_count_map(g)
        thumb_up == (g = "Thumbs Up")
        fist_detected == (g = "Fist")
    IN  CASE st = "PROMPT_TIMER" ->
               IF detected_count # None /\ 1 <= detected_count
                                        /\ detected_count <= 5
               THEN "L189" ELSE "L130"
          [] st = "DETECTING_FINGERS" ->
               IF detected_count # None THEN "L196" ELSE "L207"
          [] st = "TIMER_SET" -> "L213"
          [] st = "AWAIT_THUMBS_UP" ->
               IF thumb_up THEN "L220"
               ELSE IF fist_detected THEN "L227" ELSE "L233"
          [] st = "COUNTDOWN" -> "L238"
          [] st = "CAPTURE_DONE" -> "L231"
          [] OTHER -> "L130"

(* the branch of process_state_machine taken for local state st and
   gesture g: the first statement of the branch that touches current_state *)
Dispatch(st, g) ==
    LET detected_count == finger_count_map(g)
        thumb_up == (g = "Thumbs Up")
        fist_detected == (g = "Fist")
    IN  CASE st = "PROMPT_TIMER" ->
               IF detected_count # None /\ 1 <= detected_count
                                        /\ detected_count <= 5
               THEN "L189" ELSE "L130"
          [] st = "DETECTING_FINGERS" ->
               IF detected_count # None THEN "L196" ELSE "L207"
          [] st = "TIMER_SET" -> "L213"
          [] st = "AWAIT_THUMBS_UP" ->
               IF thumb_up THEN "L220"
               ELSE IF fist_detected THEN "L227" ELSE "L233"
          [] st = "COUNTDOWN" -> "L238"
          [] OTHER -> "L130"

(* one statement of the frame handler: the dict becomes c, control moves
   to label l *)
VfStep(c, l) ==
    /\ cs' = c
    /\ vf' = [vf EXCEPT !.pc = l]
    /\ state_update' = NoUpdate
    /\ UNCHANGED <<state_lock, sv, scen>>

(* a video_frame event with gesture g is served: the frame is decoded and
   classified, state_lock is taken, process_state_machine reads
   current_state['state'] and time.time() and selects its branch *)
VfBegin(g) ==
    /\ vf.pc = "idle"
    /\ ~state_lock
    /\ state_lock' = TRUE
    /\ vf' = [pc |-> Dispatch(cs.state, g), gesture |-> g,
              state |-> cs.state, current_time |-> now]
    /\ state_update' = NoUpdate
    /\ UNCHANGED <<cs, sv>>

(* any frame may arrive at any time; FrameGestures are the classifier
   results fed in Spec *)
FrameGestures == {"One Finger", "Peace Sign", "Thumbs Up", "Fist", NoneStr}

(* the state_update event built from dict c at time t; an event without
   the trigger_capture key has it FALSE *)
StateUpdate(c, t, trigger) ==
    [state           |-> c.state,
     timer_value     |-> c.timer_value,
     countdown       |-> get_countdown(c, t),
     streak_progress |-> get_streak_progress(c),
     trigger_capture |-> trigger,
     capture_count   |-> c.capture_count]

(* a video_frame event whose image does not decode (lines 96-114):
   state_update is emitted from the dict as it is, without state_lock and
   without running process_state_machine *)
VfDecodeFailed ==
    /\ vf.pc = "idle"
    /\ state_update' = StateUpdate(cs, now, FALSE)
    /\ UNCHANGED <<cs, state_lock, vf, sv>>

(* a video_frame event is served.  In AWAIT_THUMBS_UP with timer_value
   None line 223 raises on every Thumbs Up and thumb_up_streak grows
   without bound; it is followed up to MaxStreak. *)
handle_video_frame ==
    /\ cs.state = "AWAIT_THUMBS_UP" => cs.thumb_up_streak < MaxStreak
    /\ \E g \in FrameGestures \cup {"undecodable"} :
          IF g = "undecodable" THEN VfDecodeFailed ELSE VfBegin(g)
    /\ UNCHANGED scen

(* STATE: PROMPT_TIMER *)
psm_PROMPT_TIMER ==
    LET detected_count == finger_count_map(vf.gesture) IN
    /\ vf.pc \in {"L189", "L190", "L191"}
    /\ CASE vf.pc = "L189" ->
              VfStep([cs EXCEPT !.state = "DETECTING_FINGERS"], "L190")
         [] vf.pc = "L190" ->
              VfStep([cs EXCEPT !.last_count = detected_count], "L191")
         [] vf.pc = "L191" ->
              VfStep([cs EXCEPT !.count_streak = 1], "L130")

(* STATE: DETECTING_FINGERS *)
psm_DETECTING_FINGERS ==
    LET detected_count == finger_count_map(vf.gesture) IN
    /\ vf.pc \in {"L196", "L197", "L198", "L199", "L200", "L201",
                  "L204", "L205", "L207", "L208", "L209"}
    /\ CASE vf.pc = "L196" ->
              IF SameCount(cs, detected_count)
              THEN VfStep(cs, "L197") ELSE VfStep(cs, "L204")
         [] vf.pc = "L197" ->
              VfStep([cs EXCEPT !.count_streak = @ + 1], "L198")
         [] vf.pc = "L198" ->
              IF StreakReached(cs.count_streak)
              THEN VfStep(cs, "L199") ELSE VfStep(cs, "L130")
         [] vf.pc = "L199" ->
              VfStep([cs EXCEPT !.timer_value = detected_count], "L200")
         [] vf.pc = "L200" ->
              VfStep([cs EXCEPT !.state = "TIMER_SET"], "L201")
         [] vf.pc = "L201" ->
              VfStep([cs EXCEPT !.count_streak = 0], "L130")
         [] vf.pc = "L204" ->
              VfStep([cs EXCEPT !.count_streak = 1], "L205")
         [] vf.pc = "L205" ->
              VfStep([cs EXCEPT !.last_count = detected_count], "L130")
         [] vf.pc = "L207" ->
              VfStep([cs EXCEPT !.state = "PROMPT_TIMER"], "L208")
         [] vf.pc = "L208" ->
              VfStep([cs EXCEPT !.last_count = None], "L209")
         [] vf.pc = "L209" ->
              VfStep([cs EXCEPT !.count_streak = 0], "L130")

(* TIMER_SET counting the gesture of its own tick as the first Thumbs Up *)
psm_TIMER_SET_counts_gesture ==
    /\ vf.pc \in {"L213", "L214", "L215"}
    /\ CASE vf.pc = "L213" ->
              VfStep([cs EXCEPT !.state = "AWAIT_THUMBS_UP"], "L214")
         [] vf.pc = "L214" ->
              VfStep([cs EXCEPT !.thumb_up_streak =
                         IF vf.gesture = "Thumbs Up" THEN 1 ELSE 0], "L215")
         [] vf.pc = "L215" ->
              VfStep([cs EXCEPT !.fist_streak = 0], "L130")

(* STATE: TIMER_SET *)
psm_TIMER_SET ==
    /\ vf.pc \in {"L213", "L214", "L215"}
    /\ CASE vf.pc = "L213" ->
              VfStep([cs EXCEPT !.state = "AWAIT_THUMBS_UP"], "L214")
         [] vf.pc = "L214" ->
              VfStep([cs EXCEPT !.thumb_up_streak = 0], "L215")
         [] vf.pc = "L215" ->
              VfStep([cs EXCEPT !.fist_streak = 0], "L130")

(* AWAIT_THUMBS_UP with an else branch that leaves thumb_up_streak *)
psm_AWAIT_THUMBS_UP_keeps_streak ==
    /\ vf.pc \in {"L220", "L221", "L222", "L223", "L224",
                  "L227", "L228", "L229", "L231", "L233", "L234"}
    /\ CASE vf.pc = "L220" ->
              VfStep([cs EXCEPT !.thumb_up_streak = @ + 1], "L221")
         [] vf.pc = "L221" ->
              VfStep([cs EXCEPT !.fist_streak = 0], "L222")
         [] vf.pc = "L222" ->
              IF StreakReached(cs.thumb_up_streak)
              THEN VfStep(cs, "L223") ELSE VfStep(cs, "L130")
         [] vf.pc = "L223" ->
              IF cs.timer_value = None
              THEN VfStep(cs, "L152")
              ELSE VfStep([cs EXCEPT !.countdown_end =
                              vf.current_time
                                + cs.timer_value * TicksPerSecond], "L224")
         [] vf.pc = "L224" ->
              VfStep([cs EXCEPT !.state = "COUNTDOWN"], "L130")
         [] vf.pc = "L227" ->
              VfStep([cs EXCEPT !.fist_streak = @ + 1], "L228")
         [] vf.pc = "L228" ->
              VfStep([cs EXCEPT !.thumb_up_streak = 0], "L229")
         [] vf.pc = "L229" ->
              IF StreakReached(cs.fist_streak)
              THEN VfStep(cs, "L231") ELSE VfStep(cs, "L130")
         [] vf.pc = "L231" ->
              VfStep(reset_to_prompt, "L130")
         [] vf.pc = "L233" ->
              VfStep(cs, "L234")
         [] vf.pc = "L234" ->
              VfStep([cs EXCEPT !.fist_streak = 0], "L130")

(* AWAIT_THUMBS_UP with a cancellation that only goes back to PROMPT_TIMER *)
psm_AWAIT_THUMBS_UP_phase_only ==
    /\ vf.pc \in {"L220", "L221", "L222", "L223", "L224",
                  "L227", "L228", "L229", "L231", "L233", "L234"}
    /\ CASE vf.pc = "L220" ->
              VfStep([cs EXCEPT !.thumb_up_streak = @ + 1], "L221")
         [] vf.pc = "L221" ->
              VfStep([cs EXCEPT !.fist_streak = 0], "L222")
         [] vf.pc = "L222" ->
              IF StreakReached(cs.thumb_up_streak)
              THEN VfStep(cs, "L223") ELSE VfStep(cs, "L130")
         [] vf.pc = "L223" ->
              IF cs.timer_value = None
              THEN VfStep(cs, "L152")
              ELSE VfStep([cs EXCEPT !.countdown_end =
                              vf.current_time
                                + cs.timer_value * TicksPerSecond], "L224")
         [] vf.pc = "L224" ->
              VfStep([cs EXCEPT !.state = "COUNTDOWN"], "L130")
         [] vf.pc = "L227" ->
              VfStep([cs EXCEPT !.fist_streak = @ + 1], "L228")
         [] vf.pc = "L228" ->
              VfStep([cs EXCEPT !.thumb_up_streak = 0], "L229")
         [] vf.pc = "L229" ->
              IF StreakReached(cs.fist_streak)
              THEN VfStep(cs, "L231") ELSE VfStep(cs, "L130")
         [] vf.pc = "L231" ->
              VfStep([cs EXCEPT !.state = "PROMPT_TIMER"], "L130")
         [] vf.pc = "L233" ->
              VfStep([cs EXCEPT !.thumb_up_streak = 0], "L234")
         [] vf.pc = "L234" ->
              VfStep([cs EXCEPT !.fist_streak = 0], "L130")

(* STATE: AWAIT_THUMBS_UP.  At line 223 current_time + None raises
   TypeError, which leaves the with block for the handler at line 152. *)
psm_AWAIT_THUMBS_UP ==
    /\ vf.pc \in {"L220", "L221", "L222", "L223", "L224",
                  "L227", "L228", "L229", "L231", "L233", "L234"}
    /\ CASE vf.pc = "L220" ->
              VfStep([cs EXCEPT !.thumb_up_streak = @ + 1], "L221")
         [] vf.pc = "L221" ->
              VfStep([cs EXCEPT !.fist_streak = 0], "L222")
         [] vf.pc = "L222" ->
              IF StreakReached(cs.thumb_up_streak)
              THEN VfStep(cs, "L223") ELSE VfStep(cs, "L130")
         [] vf.pc = "L223" ->
              IF cs.timer_value = None
              THEN VfStep(cs, "L152")
              ELSE VfStep([cs EXCEPT !.countdown_end =
                              vf.current_time
                                + cs.timer_value * TicksPerSecond], "L224")
         [] vf.pc = "L224" ->
              VfStep([cs EXCEPT !.state = "COUNTDOWN"], "L130")
         [] vf.pc = "L227" ->
              VfStep([cs EXCEPT !.fist_streak = @ + 1], "L228")
         [] vf.pc = "L228" ->
              VfStep([cs EXCEPT !.thumb_up_streak = 0], "L229")
         [] vf.pc = "L229" ->
              IF StreakReached(cs.fist_streak)
              THEN VfStep(cs, "L231") ELSE VfStep(cs, "L130")
         [] vf.pc = "L231" ->
              VfStep(reset_to_prompt, "L130")
         [] vf.pc = "L233" ->
              VfStep([cs EXCEPT !.thumb_up_streak = 0], "L234")
         [] vf.pc = "L234" ->
              VfStep([cs EXCEPT !.fist_streak = 0], "L130")

(* the countdown that ends only when less than nothing remains *)
psm_COUNTDOWN_below_zero ==
    /\ vf.pc \in {"L238", "L240"}
    /\ CASE vf.pc = "L238" ->
              LET remaining == get_countdown(cs, now) IN
              IF remaining # None /\ remaining < 0
              THEN VfStep(cs, "L240") ELSE VfStep(cs, "L130")
         [] vf.pc = "L240" ->
              VfStep([cs EXCEPT !.state = "CAPTURE_DONE"], "L130")

(* STATE: COUNTDOWN *)
psm_COUNTDOWN ==
    /\ vf.pc \in {"L238", "L240"}
    /\ CASE vf.pc = "L238" ->
              LET remaining == get_countdown(cs, now) IN
              IF remaining # None /\ remaining <= 0
              THEN VfStep(cs, "L240") ELSE VfStep(cs, "L130")
         [] vf.pc = "L240" ->
              VfStep([cs EXCEPT !.state = "CAPTURE_DONE"], "L130")

(* what cv2.imencode does at line 130: it succeeds, it reports failure
   (success is False), or it raises *)
EncodeOutcomes == {"ok", "failed", "raised"}

(* lines 128-164.  The frame is encoded at line 130: on success the
   handler goes on to emit state_update (lines 138-150); when imencode
   reports failure it returns at line 133 and emits nothing; when it raises,
   the except clause emits state_update with trigger_capture False (lines
   152-164).  Leaving the with block releases state_lock. *)
emit_state_update ==
    /\ vf.pc \in {"L130", "L138", "L152"}
    /\ CASE vf.pc = "L130" ->
              \E outcome \in EncodeOutcomes :
                  IF outcome = "ok" THEN VfStep(cs, "L138")
                  ELSE IF outcome = "raised" THEN VfStep(cs, "L152")
                  ELSE /\ state_update' = NoUpdate
                       /\ vf' = VfIdle
                       /\ state_lock' = FALSE
                       /\ UNCHANGED <<cs, sv, scen>>
         [] vf.pc = "L138" ->
              /\ state_update' =
                    StateUpdate(cs, now, cs.state = "CAPTURE_DONE")
              /\ vf' = VfIdle
              /\ state_lock' = FALSE
              /\ UNCHANGED <<cs, sv, scen>>
         [] vf.pc = "L152" ->
              /\ state_update' = StateUpdate(cs, now, FALSE)
              /\ vf' = VfIdle
              /\ state_lock' = FALSE
              /\ UNCHANGED <<cs, sv, scen>>

----------------------------------------------------------------------------
(* handle_save_photo.  The threads serving save_photo events run the same
   code on the same dict and differ only in pc and locals, so they are
   kept as a bag of [pc, image, wake] records. *)

SleepLabels == {"L348", "L361"}

(* thread r moves to label l; on reaching a time.sleep(1) the wake-up time
   is fixed; "idle" ends the thread *)
SvMove(r, l) ==
    IF l = "idle" THEN sv (-) SetToBag({r})
    ELSE (sv (-) SetToBag({r}))
           (+) SetToBag({[r EXCEPT !.pc = l,
                                   !.wake = IF l \in SleepLabels
                                            THEN now + SleepTicks
                                            ELSE None]})

(* one statement of save_photo thread r: the dict becomes c, control moves
   to label l *)
SvStep(r, c, l) ==
    /\ cs' = c
    /\ sv' = SvMove(r, l)
    /\ state_update' = NoUpdate
    /\ UNCHANGED <<state_lock, vf, scen>>

(* a save_photo event carrying image d (NoneStr: no image data) starts to be
   served on a new thread, while fewer than limit are in service *)
SvBegin(d, limit) ==
    /\ BagCardinality(sv) < limit
    /\ sv' = sv (+) SetToBag({[pc |-> "L293", image |-> d, wake |-> None]})
    /\ state_update' = NoUpdate
    /\ UNCHANGED <<cs, state_lock, vf>>

handle_save_photo ==
    \E d \in Images \cup {NoneStr} : SvBegin(d, NumSavers) /\ UNCHANGED scen

(* lines 293-307: the quota test, then the validation of the image *)
save_check(r) ==
    /\ r.pc = "L293"
    /\ IF QuotaReached(cs) THEN SvStep(r, cs, "idle")
       ELSE IF r.image = NoneStr THEN SvStep(r, cs, "idle")
       ELSE SvStep(r, cs, "L313")

(* the image is counted but not stored *)
save_store_no_append(r) ==
    /\ r.pc \in {"L313", "L314", "L325"}
    /\ CASE r.pc = "L313" ->
              SvStep(r, cs, "L314")
         [] r.pc = "L314" ->
              SvStep(r, [cs EXCEPT !.capture_count = @ + 1], "L325")
         [] r.pc = "L325" ->
              IF QuotaReached(cs)
              THEN SvStep(r, cs, "L329") ELSE SvStep(r, cs, "L352")

(* lines 309-325: the image is stored and counted *)
save_store(r) ==
    /\ r.pc \in {"L313", "L314", "L325"}
    /\ CASE r.pc = "L313" ->
              SvStep(r, [cs EXCEPT !.captured_images = Append(@, r.image)],
                     "L314")
         [] r.pc = "L314" ->
              SvStep(r, [cs EXCEPT !.capture_count = @ + 1], "L325")
         [] r.pc = "L325" ->
              IF QuotaReached(cs)
              THEN SvStep(r, cs, "L329") ELSE SvStep(r, cs, "L352")

(* lines 326-349: the strip is generated, then the session is reset.
   create_photo_strip returns a file name or, on any failure, None. *)
save_strip(r) ==
    /\ r.pc \in {"L329", "L332", "L335", "L348", "L349"}
    /\ CASE r.pc = "L329" ->
              SvStep(r, [cs EXCEPT !.state = "STRIP_GENERATING"], "L332")
         [] r.pc = "L332" ->
              \E strip_filename \in {StripFile, NoneStr} :
                  IF strip_filename # NoneStr
                  THEN SvStep(r, cs, "L335")
                  ELSE SvStep(r, cs, strip_failed_next)
         [] r.pc = "L335" ->
              SvStep(r, [cs EXCEPT !.strip_filename = StripFile], "L348")
         [] r.pc = "L348" ->
              now >= r.wake /\ SvStep(r, cs, "L349")
         [] r.pc = "L349" ->
              SvStep(r, reset_to_prompt, "idle")

(* lines 350-375: the next countdown is started.  At line 364
   current_time + None raises TypeError; the except clause at line 369
   resets the session. *)
save_next(r) ==
    /\ r.pc \in {"L352", "L354", "L361", "L364", "L365", "L375"}
    /\ CASE r.pc = "L352" ->
              IF TimerInvalid(cs)
              THEN SvStep(r, cs, "L354") ELSE SvStep(r, cs, "L361")
         [] r.pc = "L354" ->
              SvStep(r, reset_to_prompt, "idle")
         [] r.pc = "L361" ->
              now >= r.wake /\ SvStep(r, cs, "L364")
         [] r.pc = "L364" ->
              IF cs.timer_value = None
              THEN SvStep(r, cs, "L375")
              ELSE SvStep(r, [cs EXCEPT !.countdown_end =
                                 now + cs.timer_value * TicksPerSecond],
                          "L365")
         [] r.pc = "L365" ->
              SvStep(r, [cs EXCEPT !.state = "COUNTDOWN"], "idle")
         [] r.pc = "L375" ->
              SvStep(r, reset_to_prompt, "idle")

----------------------------------------------------------------------------
(* The clock *)

(* timestamp x one clock unit later *)
Elapse(x) == IF x = None THEN None ELSE Max(0, x - 1)

ElapseThread(r) == [r EXCEPT !.wake = Elapse(@)]

(* one clock unit passes *)
Tick ==
    /\ vf.pc = "idle"
    /\ cs' = [cs EXCEPT !.countdown_end = Elapse(@)]
    /\ sv' = BagOfAll(ElapseThread, sv)
    /\ state_update' = NoUpdate
    /\ UNCHANGED <<state_lock, vf, scen>>

----------------------------------------------------------------------------
(* The program under any arrival of events and any scheduling of threads *)

Next ==
    \/ Tick
    \/ handle_video_frame
    \/ psm_PROMPT_TIMER
    \/ psm_DETECTING_FINGERS
    \/ psm_TIMER_SET
    \/ psm_AWAIT_THUMBS_UP
    \/ psm_COUNTDOWN
    \/ emit_state_update
    \/ handle_save_photo
    \/ \E r \in BagToSet(sv) : save_check(r)
    \/ \E r \in BagToSet(sv) : save_store(r)
    \/ \E r \in BagToSet(sv) : save_strip(r)
    \/ \E r \in BagToSet(sv) : save_next(r)

Spec == Init /\ [][Next]_vars

----------------------------------------------------------------------------
(* The program when save_photo events overlap one another but not a frame
   tick: a frame is served when no save_photo is in service, and a
   save_photo is accepted between frame ticks *)

serve_video_frame == sv = EmptyBag /\ handle_video_frame
serve_save_photo ==
    /\ vf.pc = "idle"
    /\ \E d \in Images \cup {NoneStr} : SvBegin(d, OverlapSavers)
    /\ UNCHANGED scen

OverlapNext ==
    \/ Tick
    \/ serve_video_frame
    \/ psm_PROMPT_TIMER
    \/ psm_DETECTING_FINGERS
    \/ psm_TIMER_SET
    \/ psm_AWAIT_THUMBS_UP
    \/ psm_COUNTDOWN
    \/ emit_state_update
    \/ serve_save_photo
    \/ \E r \in BagToSet(sv) : save_check(r)
    \/ \E r \in BagToSet(sv) : save_store(r)
    \/ \E r \in BagToSet(sv) : save_strip(r)
    \/ \E r \in BagToSet(sv) : save_next(r)

OverlapSpec == Init /\ [][OverlapNext]_vars

----------------------------------------------------------------------------
(* The program when frames keep being served while save_photo threads are
   asleep in time.sleep(1) (lines 348, 361), the only places where
   handle_save_photo waits: a frame tick runs while every save_photo thread
   in service is asleep, and save_photo threads run between frame ticks *)

Asleep == \A r \in BagToSet(sv) : r.pc \in SleepLabels

sleep_video_frame == Asleep /\ handle_video_frame
sleep_save_photo ==
    /\ vf.pc = "idle"
    /\ \E d \in Images \cup {NoneStr} : SvBegin(d, NumSavers)
    /\ UNCHANGED scen

SleepNext ==
    \/ Tick
    \/ sleep_video_frame
    \/ psm_PROMPT_TIMER
    \/ psm_DETECTING_FINGERS
    \/ psm_TIMER_SET
    \/ psm_AWAIT_THUMBS_UP
    \/ psm_COUNTDOWN
    \/ emit_state_update
    \/ sleep_save_photo
    \/ \E r \in BagToSet(sv) : vf.pc = "idle" /\ save_check(r)
    \/ \E r \in BagToSet(sv) : vf.pc = "idle" /\ save_store(r)
    \/ \E r \in BagToSet(sv) : vf.pc = "idle" /\ save_strip(r)
    \/ \E r \in BagToSet(sv) : vf.pc = "idle" /\ save_next(r)

SleepSpec == Init /\ [][SleepNext]_vars

----------------------------------------------------------------------------
(* The program kept going by its environment: time advances, frames keep
   arriving and are served on their thread while save_photo runs on its
   own, and the caller answers a state_update that carries trigger_capture
   with one save_photo with an image, one capture at a time.  Every thread
   that can take a step is scheduled (the interpreter switches threads
   every few milliseconds); the clock advances between frame ticks, frames
   that encode keep coming, and a caller shown trigger_capture again and
   again does answer. *)

live_save_photo ==
    /\ state_update.trigger_capture
    /\ \E d \in Images : SvBegin(d, 1)
    /\ UNCHANGED scen

frame_arrives == handle_video_frame /\ vf'.pc # "idle"

frame_encoded == emit_state_update /\ vf'.pc = "L138"

process_state_machine ==
    \/ psm_PROMPT_TIMER
    \/ psm_DETECTING_FINGERS
    \/ psm_TIMER_SET
    \/ psm_AWAIT_THUMBS_UP
    \/ psm_COUNTDOWN

save_photo_runs ==
    \E r \in BagToSet(sv) :
        save_check(r) \/ save_store(r) \/ save_strip(r) \/ save_next(r)

LiveNext ==
    \/ Tick
    \/ handle_video_frame
    \/ psm_PROMPT_TIMER
    \/ psm_DETECTING_FINGERS
    \/ psm_TIMER_SET
    \/ psm_AWAIT_THUMBS_UP
    \/ psm_COUNTDOWN
    \/ emit_state_update
    \/ live_save_photo
    \/ \E r \in BagToSet(sv) : save_check(r)
    \/ \E r \in BagToSet(sv) : save_store(r)
    \/ \E r \in BagToSet(sv) : save_strip(r)
    \/ \E r \in BagToSet(sv) : save_next(r)

LiveFairness ==
    /\ SF_vars(Tick)
    /\ WF_vars(frame_arrives)
    /\ WF_vars(process_state_machine)
    /\ WF_vars(emit_state_update)
    /\ SF_vars(frame_encoded)
    /\ SF_vars(live_save_photo)
    /\ WF_vars(save_photo_runs)

LiveSpec == Init /\ [][LiveNext]_vars /\ LiveFairness

----------------------------------------------------------------------------
(* GestureDetector.detect_gesture (src/gesture_detector.py) on the first
   hand MediaPipe finds in the frame.  A hand h is given by the
   measurements the classifier takes from the landmarks: for each finger
   the rise pip.y - tip.y in hundredths and the distance tip-to-MCP, for
   the thumb the rise thumb_mcp.y - thumb_tip.y in hundredths and the
   distance tip-to-index-MCP, and hand_size, the distance wrist-to-middle-
   MCP; every distance in the same unit.  The values straddle the
   thresholds 0.02, 0.6, 0.7 and 0.08. *)

FingerRises == {2, 3}
FingerDists == {6, 7}
ThumbRises == {8, 9}
ThumbDists == {6, 7, 8}
HandSizes == {0, 10}

Fingers == [rise : FingerRises, dist : FingerDists]

Hands ==
    [index : Fingers, middle : Fingers, ring : Fingers, pinky : Fingers,
     thumb_rise : ThumbRises, thumb_to_index_dist : ThumbDists,
     hand_size : HandSizes]

(* dist / hand_size if hand_size > 0 else 0, compared with tenths/10 *)
RatioAbove(dist, hand_size, tenths) ==
    IF hand_size > 0 THEN 10 * dist > tenths * hand_size ELSE 0 > tenths

RatioBelow(dist, hand_size, tenths) ==
    IF hand_size > 0 THEN 10 * dist < tenths * hand_size ELSE 0 < tenths

FINGER_RATIO_THRESHOLD == 6

(* (pip.y - tip.y) > 0.02 and ratio > FINGER_RATIO_THRESHOLD *)
finger_extended(f, hand_size) ==
    f.rise > 2 /\ RatioAbove(f.dist, hand_size, FINGER_RATIO_THRESHOLD)

index_extended(h) == finger_extended(h.index, h.hand_size)
middle_extended(h) == finger_extended(h.middle, h.hand_size)
ring_extended(h) == finger_extended(h.ring, h.hand_size)
pinky_extended(h) == finger_extended(h.pinky, h.hand_size)

thumb_extended(h) == RatioAbove(h.thumb_to_index_dist, h.hand_size, 7)

thumb_pointing_up(h) == h.thumb_rise > 8

is_thumbs_up(h) ==
    /\ thumb_extended(h)
    /\ thumb_pointing_up(h)
    /\ ~index_extended(h)
    /\ ~middle_extended(h)
    /\ ~ring_extended(h)
    /\ ~pinky_extended(h)

is_fist(h) ==
    /\ ~index_extended(h)
    /\ ~middle_extended(h)
    /\ ~ring_extended(h)
    /\ ~pinky_extended(h)
    /\ RatioBelow(h.thumb_to_index_dist, h.hand_size, 7)

finger_count(h) ==
    (IF index_extended(h) THEN 1 ELSE 0)
      + (IF middle_extended(h) THEN 1 ELSE 0)
      + (IF ring_extended(h) THEN 1 ELSE 0)
      + (IF pinky_extended(h) THEN 1 ELSE 0)

(* the priority chain with a Peace Sign test that does not look at the ring
   finger *)
detect_gesture_peace_ignores_ring(h) ==
    IF is_fist(h) THEN "Fist"
    ELSE IF is_thumbs_up(h) THEN "Thumbs Up"
    ELSE IF /\ index_extended(h) /\ ~middle_extended(h)
            /\ ~ring_extended(h) /\ ~pinky_extended(h)
    THEN "One Finger"
    ELSE IF /\ index_extended(h) /\ middle_extended(h)
            /\ ~pinky_extended(h)
    THEN "Peace Sign"
    ELSE IF /\ index_extended(h) /\ middle_extended(h)
            /\ ring_extended(h) /\ ~pinky_extended(h)
    THEN "Three Fingers"
    ELSE IF finger_count(h) = 4 /\ ~thumb_extended(h) THEN "Four Fingers"
    ELSE IF finger_count(h) = 4 /\ thumb_extended(h) THEN "Open Palm"
    ELSE IF finger_count(h) = 4
            /\ RatioAbove(h.thumb_to_index_dist, h.hand_size, 7)
    THEN "Open Palm"
    ELSE NoneStr

(* gesture_name after the priority chain, lines 144-182 *)
detect_gesture(h) ==
    IF is_fist(h) THEN "Fist"
    ELSE IF is_thumbs_up(h) THEN "Thumbs Up"
    ELSE IF /\ index_extended(h) /\ ~middle_extended(h)
            /\ ~ring_extended(h) /\ ~pinky_extended(h)
    THEN "One Finger"
    ELSE IF /\ index_extended(h) /\ middle_extended(h)
            /\ ~ring_extended(h) /\ ~pinky_extended(h)
    THEN "Peace Sign"
    ELSE IF /\ index_extended(h) /\ middle_extended(h)
            /\ ring_extended(h) /\ ~pinky_extended(h)
    THEN "Three Fingers"
    ELSE IF finger_count(h) = 4 /\ ~thumb_extended(h) THEN "Four Fingers"
    ELSE IF finger_count(h) = 4 /\ thumb_extended(h) THEN "Open Palm"
    ELSE IF finger_count(h) = 4
            /\ RatioAbove(h.thumb_to_index_dist, h.hand_size, 7)
    THEN "Open Palm"
    ELSE NoneStr

(* The frame handler fed frames that show one hand, held still: line 118
   of app.py classifies the frame and process_state_machine gets the label.
   scen is the hand in front of the camera. *)

DetectInit ==
    /\ cs = current_state
    /\ state_lock = FALSE
    /\ vf = VfIdle
    /\ sv = EmptyBag
    /\ state_update = NoUpdate
    /\ scen \in Hands

detect_video_frame == VfBegin(detect_gesture(scen)) /\ UNCHANGED scen

DetectNext ==
    \/ detect_video_frame
    \/ psm_PROMPT_TIMER
    \/ psm_DETECTING_FINGERS
    \/ psm_TIMER_SET
    \/ psm_AWAIT_THUMBS_UP
    \/ emit_state_update

DetectSpec == DetectInit /\ [][DetectNext]_vars

----------------------------------------------------------------------------
(* The desktop variant, src/main.py: one loop on one thread, its session
   in the loop's variables.  It is run beside the web variant, frame by
   frame on the same gesture at the same time, until the first countdown
   starts.  scen holds the loop's variables. *)

(* main.py lines 40-46 *)
main_state ==
    [state           |-> "PROMPT_TIMER",
     last_count      |-> None,
     count_streak    |-> 0,
     thumb_up_streak |-> 0,
     fist_streak     |-> 0,
     timer_value     |-> None,
     countdown_end   |-> None]

(* the loop that leaves count_streak as it is when the timer is set *)
main_loop_keeps_streak(d, g, t) ==
    LET detected_count == finger_count_map(g)
        thumb_up == (g = "Thumbs Up")
        fist_detected == (g = "Fist")
    IN  CASE d.state = "PROMPT_TIMER" ->
               IF detected_count # None /\ 1 <= detected_count
                                        /\ detected_count <= 5
               THEN [d EXCEPT !.state = "DETECTING_FINGERS",
                              !.last_count = detected_count,
                              !.count_streak = 1]
               ELSE d
          [] d.state = "DETECTING_FINGERS" ->
               IF detected_count # None
               THEN IF SameCount(d, detected_count)
                    THEN IF StreakReached(d.count_streak + 1)
                         THEN [d EXCEPT !.timer_value = detected_count,
                                        !.state = "TIMER_SET",
                                        !.thumb_up_streak = 0]
                         ELSE [d EXCEPT !.count_streak = @ + 1]
                    ELSE [d EXCEPT !.count_streak = 1,
                                   !.last_count = detected_count]
               ELSE [d EXCEPT !.state = "PROMPT_TIMER",
                              !.last_count = None,
                              !.count_streak = 0]
          [] d.state = "TIMER_SET" ->
               [d EXCEPT !.state = "AWAIT_THUMBS_UP"]
          [] d.state = "AWAIT_THUMBS_UP" ->
               IF thumb_up
               THEN IF StreakReached(d.thumb_up_streak + 1)
                    THEN IF d.timer_value = None
                         THEN [d EXCEPT !.thumb_up_streak = @ + 1,
                                        !.fist_streak = 0,
                                        !.state = "TypeError"]
                         ELSE [d EXCEPT !.thumb_up_streak = @ + 1,
                                        !.countdown_end =
                                            t + d.timer_value * TicksPerSecond,
                                        !.state = "COUNTDOWN",
                                        !.fist_streak = 0]
                    ELSE [d EXCEPT !.thumb_up_streak = @ + 1,
                                   !.fist_streak = 0]
               ELSE IF fist_detected
               THEN IF StreakReached(d.fist_streak + 1)
                    THEN [d EXCEPT !.state = "PROMPT_TIMER",
                                   !.timer_value = None,
                                   !.last_count = None,
                                   !.count_streak = 0,
                                   !.thumb_up_streak = 0,
                                   !.fist_streak = 0]
                    ELSE [d EXCEPT !.fist_streak = @ + 1,
                                   !.thumb_up_streak = 0]
               ELSE [d EXCEPT !.thumb_up_streak = 0,
                              !.fist_streak = 0]
          [] OTHER -> d

(* one pass of the while loop (lines 71-145) on variables d with gesture g
   at time t.  With timer_value None line 125 raises TypeError and the
   program ends. *)
main_loop(d, g, t) ==
    LET detected_count == finger_count_map(g)
        thumb_up == (g = "Thumbs Up")
        fist_detected == (g = "Fist")
    IN  CASE d.state = "PROMPT_TIMER" ->
               IF detected_count # None /\ 1 <= detected_count
                                        /\ detected_count <= 5
               THEN [d EXCEPT !.state = "DETECTING_FINGERS",
                              !.last_count = detected_count,
                              !.count_streak = 1]
               ELSE d
          [] d.state = "DETECTING_FINGERS" ->
               IF detected_count # None
               THEN IF SameCount(d, detected_count)
                    THEN IF StreakReached(d.count_streak + 1)
                         THEN [d EXCEPT !.timer_value = detected_count,
                                        !.state = "TIMER_SET",
                                        !.count_streak = 0,
                                        !.thumb_up_streak = 0]
                         ELSE [d EXCEPT !.count_streak = @ + 1]
                    ELSE [d EXCEPT !.count_streak = 1,
                                   !.last_count = detected_count]
               ELSE [d EXCEPT !.state = "PROMPT_TIMER",
                              !.last_count = None,
                              !.count_streak = 0]
          [] d.state = "TIMER_SET" ->
               [d EXCEPT !.state = "AWAIT_THUMBS_UP"]
          [] d.state = "AWAIT_THUMBS_UP" ->
               IF thumb_up
               THEN IF StreakReached(d.thumb_up_streak + 1)
                    THEN IF d.timer_value = None
                         THEN [d EXCEPT !.thumb_up_streak = @ + 1,
                                        !.fist_streak = 0,
                                        !.state = "TypeError"]
                         ELSE [d EXCEPT !.thumb_up_streak = @ + 1,
                                        !.countdown_end =
                                            t + d.timer_value * TicksPerSecond,
                                        !.state = "COUNTDOWN",
                                        !.fist_streak = 0]
                    ELSE [d EXCEPT !.thumb_up_streak = @ + 1,
                                   !.fist_streak = 0]
               ELSE IF fist_detected
               THEN IF StreakReached(d.fist_streak + 1)
                    THEN [d EXCEPT !.state = "PROMPT_TIMER",
                                   !.timer_value = None,
                                   !.last_count = None,
                                   !.count_streak = 0,
                                   !.thumb_up_streak = 0,
                                   !.fist_streak = 0]
                    ELSE [d EXCEPT !.fist_streak = @ + 1,
                                   !.thumb_up_streak = 0]
               ELSE [d EXCEPT !.thumb_up_streak = 0,
                              !.fist_streak = 0]
          [] OTHER -> d

BothInit ==
    /\ cs = current_state
    /\ state_lock = FALSE
    /\ vf = VfIdle
    /\ sv = EmptyBag
    /\ state_update = NoUpdate
    /\ scen = main_state

(* the next frame goes to both variants *)
both_frame ==
    /\ cs.state # "COUNTDOWN"
    /\ scen.state # "COUNTDOWN"
    /\ \E g \in Gestures : VfBegin(g) /\ scen' = main_loop(scen, g, now)

(* time passes between two frames *)
both_wait == cs.state # "COUNTDOWN" /\ Tick

BothNext ==
    \/ both_frame
    \/ both_wait
    \/ psm_PROMPT_TIMER
    \/ psm_DETECTING_FINGERS
    \/ psm_TIMER_SET
    \/ psm_AWAIT_THUMBS_UP
    \/ emit_state_update

BothSpec == BothInit /\ [][BothNext]_vars

----------------------------------------------------------------------------
(* The program driven by one caller that follows the capture protocol:
   from the fresh session it shows a finger gesture scen.g five times, one
   more frame, Thumbs Up five times, waits for each countdown to elapse,
   and answers each CAPTURE_DONE with one save_photo.  scen.k counts the
   events the caller has sent. *)

AllIdle == vf.pc = "idle" /\ sv = EmptyBag

CountdownFrames == {11, 13, 15, 17}
SaveEvents == {12, 14, 16, 18}

(* the caller's k+1st event may be a frame with gesture g *)
ScriptFrame(g) ==
    \/ scen.k \in 0..4 /\ g = scen.g
    \/ scen.k = 5
    \/ scen.k \in 6..10 /\ g = "Thumbs Up"
    \/ /\ scen.k \in CountdownFrames
       /\ cs.state = "COUNTDOWN"
       /\ now >= cs.countdown_end

(* the caller lets time pass: a countdown is running, or a save_photo
   thread is asleep *)
ScriptWait ==
    \/ /\ AllIdle
       /\ scen.k \in CountdownFrames
       /\ cs.state = "COUNTDOWN"
       /\ now < cs.countdown_end
    \/ \E r \in BagToSet(sv) : r.pc \in SleepLabels /\ now < r.wake

ScenarioInit ==
    /\ cs = current_state
    /\ state_lock = FALSE
    /\ vf = VfIdle
    /\ sv = EmptyBag
    /\ state_update = NoUpdate
    /\ scen \in {[g |-> g, k |-> 0] : g \in FingerGestures}

ScenarioFrame ==
    /\ AllIdle
    /\ \E g \in Gestures : ScriptFrame(g) /\ VfBegin(g)
    /\ scen' = [scen EXCEPT !.k = @ + 1]

ScenarioSave ==
    /\ AllIdle
    /\ scen.k \in SaveEvents
    /\ \E d \in Images : SvBegin(d, 1)
    /\ scen' = [scen EXCEPT !.k = @ + 1]

ScenarioTick == ScriptWait /\ Tick

ScenarioNext ==
    \/ ScenarioTick
    \/ ScenarioFrame
    \/ psm_PROMPT_TIMER
    \/ psm_DETECTING_FINGERS
    \/ psm_TIMER_SET
    \/ psm_AWAIT_THUMBS_UP
    \/ psm_COUNTDOWN
    \/ emit_state_update
    \/ ScenarioSave
    \/ \E r \in BagToSet(sv) : save_check(r)
    \/ \E r \in BagToSet(sv) : save_store(r)
    \/ \E r \in BagToSet(sv) : save_strip(r)
    \/ \E r \in BagToSet(sv) : save_next(r)

ScenarioSpec == ScenarioInit /\ [][ScenarioNext]_vars

----------------------------------------------------------------------------
(* Properties *)

(* thread r of handle_save_photo takes the step *)
SaveStepOf(r) == CopiesIn(r, sv') < CopiesIn(r, sv)

(* the frame handler has read current_state and not yet emitted *)
FrameInProgress == vf.pc # "idle"

(* a save_photo thread has read current_state and not yet returned *)
SaveInProgress == \E r \in BagToSet(sv) : r.pc # "L293"

(* C1 - Debounce.  In a run of the same finger gesture g fed from the fresh
   session, the 1st to 4th frame (during and after its processing) leave
   the session out of TIMER_SET with no timer, and the 5th frame ends in
   TIMER_SET with timer_value = count(g) and count_streak = 0. *)
Debounce ==
    scen.g # NoneStr =>
        /\ scen.k <= 4 => cs.state # "TIMER_SET" /\ cs.timer_value = None
        /\ scen.k \in 1..4 /\ vf.pc = "idle" =>
              /\ cs.state = "DETECTING_FINGERS"
              /\ cs.count_streak = scen.k
        /\ scen.k = 5 /\ vf.pc = "idle" =>
              /\ cs.state = "TIMER_SET"
              /\ cs.timer_value = finger_count_map(scen.g)
              /\ cs.count_streak = 0

DebounceWitness ==
    /\ scen.g = "Open Palm"
    /\ scen.k = 5
    /\ vf.pc = "idle"
    /\ cs.state = "TIMER_SET"
    /\ cs.timer_value = 5

(* C2 - End-to-end scenario with Three Fingers: TIMER_SET after the 5th
   frame, AWAIT_THUMBS_UP with timer 3 after the next, COUNTDOWN with a
   countdown of 3 emitted after the 5th Thumbs Up, CAPTURE_DONE at the
   first frame after each countdown has elapsed, COUNTDOWN again after each
   of the first three save_photo, STRIP_GENERATING with 4 captures during
   the 4th, and the fresh PROMPT_TIMER session once the 4th has reset. *)
EndToEnd ==
    scen.g = "Three Fingers" =>
        /\ scen.k = 5 /\ vf.pc = "idle" =>
              cs.state = "TIMER_SET" /\ cs.timer_value = 3
        /\ scen.k = 6 /\ vf.pc = "idle" =>
              cs.state = "AWAIT_THUMBS_UP" /\ cs.timer_value = 3
        /\ scen.k = 11 /\ vf.pc = "idle" =>
              cs.state = "COUNTDOWN" /\ cs.timer_value = 3
        /\ scen.k = 11 /\ state_update # NoUpdate =>
              /\ state_update.state = "COUNTDOWN"
              /\ state_update.countdown = 3
        /\ scen.k \in SaveEvents /\ vf.pc = "idle" =>
              /\ cs.state = "CAPTURE_DONE"
              /\ cs.capture_count = (scen.k - 12) \div 2
        /\ scen.k \in {13, 15, 17} /\ AllIdle =>
              /\ cs.state = "COUNTDOWN"
              /\ cs.timer_value = 3
              /\ cs.capture_count = (scen.k - 11) \div 2
        /\ scen.k = 19 =>
              /\ \A r \in BagToSet(sv) :
                    r.pc \in {"L332", "L335", "L348", "L349"} =>
                        /\ cs.state = "STRIP_GENERATING"
                        /\ cs.capture_count = 4
              /\ AllIdle =>
                    cs.state = "PROMPT_TIMER" /\ cs.capture_count = 0

EndToEndWitness ==
    /\ scen.g = "Three Fingers"
    /\ scen.k = 19
    /\ AllIdle
    /\ cs.state = "PROMPT_TIMER"
    /\ cs.capture_count = 0

(* C3 - Mutual exclusion: the frame handler and a save_photo handler are
   never both between their first access to current_state and their
   return. *)
MutualExclusion == ~(FrameInProgress /\ SaveInProgress)

(* C4 - capture_count equals the number of captured images in every
   state, also while save_photo is being served. *)
CountMatchesImages == cs.capture_count = Len(cs.captured_images)

(* C5 - capture_count stays within 0..PHOTOS_PER_STRIP. *)
CountInRange == cs.capture_count \in 0..PHOTOS_PER_STRIP

(* C6 - Capture quota: a save_photo that finds capture_count >=
   PHOTOS_PER_STRIP returns at once and changes nothing in the session. *)
QuotaNoOp ==
    [][\A r \in BagToSet(sv) :
          (/\ r.pc = "L293"
           /\ cs.capture_count >= PHOTOS_PER_STRIP
           /\ SaveStepOf(r))
          => (cs' = cs /\ sv' = sv (-) SetToBag({r}))]_vars

QuotaNoOpWitness ==
    /\ cs.capture_count = PHOTOS_PER_STRIP
    /\ Len(cs.captured_images) = PHOTOS_PER_STRIP
    /\ \E r \in BagToSet(sv) : r.pc = "L293" /\ r.image # NoneStr

(* C7 - Full reset: every step that executes reset_to_prompt, in the frame
   handler (line 231) or in save_photo (lines 349, 354, 375), leaves every
   field of the session at its initial value in one step, whatever the
   session was, a freshly reset session included. *)
ResetStep ==
    \/ vf.pc = "L231" /\ vf'.pc # "L231"
    \/ \E r \in BagToSet(sv) :
          r.pc \in {"L349", "L354", "L375"} /\ SaveStepOf(r)

FullReset == [][ResetStep => cs' = current_state]_vars

FullResetWitness ==
    /\ \E r \in BagToSet(sv) : r.pc = "L349"
    /\ cs.state = "STRIP_GENERATING"
    /\ cs.timer_value # None
    /\ cs.countdown_end # None
    /\ cs.last_count # None
    /\ cs.thumb_up_streak > 0
    /\ cs.capture_count > 0
    /\ cs.captured_images # << >>
    /\ cs.strip_filename # NoneStr

(* C8 - trigger_capture is true on exactly the frame tick on which the
   state becomes CAPTURE_DONE: a tick that emits state_update at line 138
   has it true exactly when it found another state at line 170 and emits
   CAPTURE_DONE. *)
TriggerOnce ==
    [][(vf.pc = "L138" /\ vf'.pc = "idle")
          => (state_update'.trigger_capture
                <=> (vf.state # "CAPTURE_DONE"
                       /\ state_update'.state = "CAPTURE_DONE"))]_vars

(* C9 - countdown_end is set only in COUNTDOWN, stated for the states in
   which no handler is running. *)
DeadlineOnlyInCountdown ==
    AllIdle /\ cs.countdown_end # None => cs.state = "COUNTDOWN"

(* C10 - Between frame ticks timer_value is None in PROMPT_TIMER and in
   DETECTING_FINGERS; a timer that is set is in 1..5; and a step changes a
   set timer only by resetting the whole session. *)
TimerValue ==
    /\ [](vf.pc = "idle" =>
            /\ cs.state \in {"PROMPT_TIMER", "DETECTING_FINGERS"}
                  => cs.timer_value = None
            /\ cs.timer_value # None => cs.timer_value \in 1..5)
    /\ [][cs.timer_value # None /\ cs'.timer_value # cs.timer_value
             => cs' = current_state]_vars

TimerValueWitness ==
    /\ cs.state = "COUNTDOWN"
    /\ cs.timer_value = 2
    /\ cs.capture_count = 3
    /\ vf.pc = "idle"

(* C11 - The COUNTDOWN branch decides to enter CAPTURE_DONE (line 239 to
   line 240) exactly when the deadline has been reached, now >=
   countdown_end; on a tick with now < countdown_end it leaves the state
   COUNTDOWN. *)
CaptureAtDeadline ==
    [][(vf.pc = "L238" /\ vf'.pc # "L238" /\ cs.state = "COUNTDOWN"
          /\ cs.countdown_end # None)
          => (vf'.pc = "L240" <=> now >= cs.countdown_end)]_vars

(* C12 - Streak reset on change.  In DETECTING_FINGERS a finger gesture
   whose count differs from last_count takes the else branch of line 196
   (lines 203-205), whatever count_streak is; that branch sets count_streak
   to 1, and ends with last_count the new count, count_streak 1, the state
   still DETECTING_FINGERS and no timer_value. *)
StreakResetOnChange ==
    [][/\ (/\ vf.pc = "L196" /\ vf'.pc # "L196"
           /\ finger_count_map(vf.gesture) # cs.last_count)
          => vf'.pc = "L204"
       /\ (vf.pc = "L204" /\ vf'.pc # "L204")
          => (/\ finger_count_map(vf.gesture) # cs.last_count
              /\ vf'.pc = "L205"
              /\ cs'.count_streak = 1)
       /\ (vf.pc = "L205" /\ vf'.pc # "L205")
          => (/\ vf'.pc = "L130"
              /\ cs'.last_count = finger_count_map(vf.gesture)
              /\ cs'.count_streak = 1
              /\ cs'.state = "DETECTING_FINGERS"
              /\ cs'.timer_value = None)]_vars

StreakResetOnChangeWitness ==
    /\ vf.pc = "L204"
    /\ vf.gesture = "Peace Sign"
    /\ cs.last_count = 1
    /\ cs.count_streak = 4
    /\ cs.state = "DETECTING_FINGERS"

(* C13 - After the capture that brings capture_count to PHOTOS_PER_STRIP
   the session is reset whether create_photo_strip succeeds or fails: the
   thread that finds the quota reached at line 325 goes through lines
   329-348 to line 349 and cannot end before it, its step at line 349 ends
   it with every field of the session at its initial value, and the state
   is STRIP_GENERATING only while such a thread is on its way to
   line 349. *)
StripPath == {"L329", "L332", "L335", "L348", "L349"}

StripAlwaysResets ==
    /\ [](cs.state = "STRIP_GENERATING"
            => \E r \in BagToSet(sv) : r.pc \in StripPath \ {"L329"})
    /\ [][\A r \in BagToSet(sv) :
            /\ (r.pc = "L325" /\ QuotaReached(cs) /\ SaveStepOf(r))
                  => \E q \in BagToSet(sv') : q.pc = "L329"
            /\ (r.pc \in StripPath \ {"L349"} /\ SaveStepOf(r))
                  => /\ BagCardinality(sv') = BagCardinality(sv)
                     /\ \E q \in BagToSet(sv') :
                           /\ q.pc \in StripPath \ {"L329"}
                           /\ CopiesIn(q, sv') > CopiesIn(q, sv)
            /\ (r.pc = "L349" /\ SaveStepOf(r))
                  => /\ cs' = current_state
                     /\ sv' = sv (-) SetToBag({r})]_vars

StripAlwaysResetsWitness ==
    /\ \E r \in BagToSet(sv) : r.pc = "L349"
    /\ cs.state = "STRIP_GENERATING"
    /\ cs.capture_count = PHOTOS_PER_STRIP
    /\ Len(cs.captured_images) = PHOTOS_PER_STRIP
    /\ cs.strip_filename = NoneStr
    /\ cs.timer_value # None

(* C15 - A frame tick on which processing fails still emits state_update,
   and the view shows the session as it was before the tick: a tick that
   ends at line 133 because the frame could not be encoded emits a view,
   and a tick that ends in the except clause (line 152) emits a view whose
   state is the state read at line 170. *)
ViewOnFailure ==
    [][/\ (vf.pc = "L130" /\ vf'.pc = "idle") => state_update' # NoUpdate
       /\ (vf.pc = "L152" /\ vf'.pc = "idle")
             => /\ state_update' # NoUpdate
                /\ state_update'.state = vf.state]_vars

(* C16 - In AWAIT_THUMBS_UP a Thumbs Up adds 1 to thumb_up_streak, and when
   process_state_machine has run on a tick that started in AWAIT_THUMBS_UP:
   the state is COUNTDOWN exactly when the gesture was Thumbs Up and it
   brought thumb_up_streak to CONSECUTIVE_REQUIRED, countdown_end is then
   the time of the tick plus timer_value, and after any other gesture
   thumb_up_streak is 0. *)
ThumbsUpStarts ==
    /\ [][(vf.pc = "L220" /\ vf'.pc # "L220")
             => cs'.thumb_up_streak = cs.thumb_up_streak + 1]_vars
    /\ []((vf.pc = "L130" /\ vf.state = "AWAIT_THUMBS_UP") =>
            /\ cs.state = "COUNTDOWN"
                  <=> (/\ vf.gesture = "Thumbs Up"
                       /\ cs.thumb_up_streak = CONSECUTIVE_REQUIRED)
            /\ cs.state = "COUNTDOWN"
                  => cs.countdown_end
                       = vf.current_time + cs.timer_value * TicksPerSecond
            /\ vf.gesture = "Thumbs Up" => cs.thumb_up_streak >= 1
            /\ vf.gesture # "Thumbs Up" => cs.thumb_up_streak = 0)

ThumbsUpStartsWitness ==
    /\ vf.pc = "L130"
    /\ vf.state = "AWAIT_THUMBS_UP"
    /\ vf.gesture = "Thumbs Up"
    /\ cs.state = "COUNTDOWN"
    /\ cs.thumb_up_streak = CONSECUTIVE_REQUIRED
    /\ cs.timer_value = 2
    /\ cs.countdown_end = 2 * TicksPerSecond

(* C17 - In AWAIT_THUMBS_UP a Fist adds 1 to fist_streak and leaves state
   and timer_value; the tick goes on to reset_to_prompt exactly when
   fist_streak has reached CONSECUTIVE_REQUIRED, and that step leaves every
   field of the session at its initial value.  When process_state_machine
   has run on a tick that started in AWAIT_THUMBS_UP with Fist, the session
   is either the initial one or still AWAIT_THUMBS_UP with its timer and a
   fist_streak below CONSECUTIVE_REQUIRED; after any other gesture
   fist_streak is 0. *)
FistResets ==
    /\ [][/\ (vf.pc \in {"L227", "L228", "L229"} /\ vf'.pc # vf.pc)
               => /\ cs'.state = cs.state
                  /\ cs'.timer_value = cs.timer_value
          /\ (vf.pc = "L227" /\ vf'.pc # "L227")
               => cs'.fist_streak = cs.fist_streak + 1
          /\ (vf.pc = "L229" /\ vf'.pc # "L229")
               => (vf'.pc = "L231"
                     <=> cs.fist_streak >= CONSECUTIVE_REQUIRED)
          /\ (vf.pc = "L231" /\ vf'.pc # "L231")
               => cs' = current_state]_vars
    /\ []((vf.pc = "L130" /\ vf.state = "AWAIT_THUMBS_UP") =>
            /\ vf.gesture = "Fist" =>
                  \/ cs = current_state
                  \/ /\ cs.state = "AWAIT_THUMBS_UP"
                     /\ cs.timer_value \in 1..5
                     /\ cs.fist_streak \in 1..(CONSECUTIVE_REQUIRED - 1)
            /\ vf.gesture # "Fist" => cs.fist_streak = 0)

FistResetsWitness ==
    /\ vf.pc = "L130"
    /\ vf.state = "AWAIT_THUMBS_UP"
    /\ vf.gesture = "Fist"
    /\ cs = current_state

(* C18 - In TIMER_SET every tick, whatever its gesture, leaves timer_value
   as it is, and when process_state_machine has run the state is
   AWAIT_THUMBS_UP with thumb_up_streak = fist_streak = 0: the gesture of
   the tick counts towards neither streak. *)
TimerSetAdvances ==
    /\ [][(vf.pc \in {"L213", "L214", "L215"} /\ vf'.pc # vf.pc)
             => cs'.timer_value = cs.timer_value]_vars
    /\ []((vf.pc = "L130" /\ vf.state = "TIMER_SET") =>
            /\ cs.state = "AWAIT_THUMBS_UP"
            /\ cs.thumb_up_streak = 0
            /\ cs.fist_streak = 0
            /\ cs.timer_value \in 1..5)

TimerSetAdvancesWitness ==
    /\ vf.pc = "L130"
    /\ vf.state = "TIMER_SET"
    /\ vf.gesture = "Thumbs Up"
    /\ cs.state = "AWAIT_THUMBS_UP"
    /\ cs.thumb_up_streak = 0
    /\ cs.timer_value = 2

(* C19 - An accepted save_photo, served alone as the capture protocol has
   it: line 313 appends the image, line 314 adds exactly 1 to
   capture_count; with the new count below PHOTOS_PER_STRIP and a positive
   timer_value the thread goes on to set countdown_end to the time read at
   line 363 plus timer_value and the state to COUNTDOWN, timer_value
   unchanged, and ends; with the new count at PHOTOS_PER_STRIP it sets
   STRIP_GENERATING and leaves countdown_end alone. *)
CaptureAccepted ==
    [][\A r \in BagToSet(sv) : SaveStepOf(r) =>
          /\ r.pc = "L313" =>
                /\ cs'.captured_images = Append(cs.captured_images, r.image)
                /\ cs'.capture_count = cs.capture_count
          /\ r.pc = "L314" =>
                /\ cs'.capture_count = cs.capture_count + 1
                /\ cs'.captured_images = cs.captured_images
                /\ cs'.capture_count = Len(cs'.captured_images)
          /\ r.pc = "L325" =>
                /\ cs' = cs
                /\ cs.capture_count <= PHOTOS_PER_STRIP
                /\ \E q \in BagToSet(sv') :
                      q.pc = IF cs.capture_count = PHOTOS_PER_STRIP
                             THEN "L329" ELSE "L352"
          /\ r.pc = "L329" =>
                cs' = [cs EXCEPT !.state = "STRIP_GENERATING"]
          /\ (r.pc = "L352" /\ cs.timer_value > 0) =>
                cs' = cs /\ \E q \in BagToSet(sv') : q.pc = "L361"
          /\ (r.pc = "L361" /\ now >= r.wake) =>
                cs' = cs /\ \E q \in BagToSet(sv') : q.pc = "L364"
          /\ r.pc = "L364" =>
                /\ cs' = [cs EXCEPT !.countdown_end =
                             now + cs.timer_value * TicksPerSecond]
                /\ \E q \in BagToSet(sv') : q.pc = "L365"
          /\ r.pc = "L365" =>
                /\ cs' = [cs EXCEPT !.state = "COUNTDOWN"]
                /\ cs.countdown_end = now + cs.timer_value * TicksPerSecond
                /\ cs.capture_count < PHOTOS_PER_STRIP
                /\ sv' = EmptyBag]_vars

CaptureAcceptedWitness ==
    /\ scen.g = "Peace Sign"
    /\ scen.k = 13
    /\ AllIdle
    /\ cs.state = "COUNTDOWN"
    /\ cs.timer_value = 2
    /\ cs.countdown_end = now + 2 * TicksPerSecond
    /\ cs.capture_count = 1
    /\ cs.captured_images = <<"img">>

(* C20 - A save_photo thread that has stored its image, found the quota not
   reached and finds timer_value None or not positive at line 352 goes to
   line 354, never on to the countdown, and its step at line 354 ends it
   with every field of the session at its initial value. *)
CorruptTimerResets ==
    [][\A r \in BagToSet(sv) : SaveStepOf(r) =>
          /\ (r.pc = "L352" /\ (cs.timer_value = None \/ cs.timer_value <= 0))
                => /\ cs' = cs
                   /\ sv' = (sv (-) SetToBag({r}))
                              (+) SetToBag({[r EXCEPT !.pc = "L354"]})
          /\ r.pc = "L354"
                => /\ cs' = current_state
                   /\ sv' = sv (-) SetToBag({r})]_vars

CorruptTimerResetsWitness ==
    /\ \E r \in BagToSet(sv) : r.pc = "L354"
    /\ cs.timer_value = None
    /\ cs.state = "DETECTING_FINGERS"
    /\ cs.count_streak = 3
    /\ cs.capture_count = 1
    /\ cs.captured_images = <<"img">>

(* C21 - A frame tick that finds the state CAPTURE_DONE or STRIP_GENERATING
   at line 170 changes no field of the session, whatever the gesture and
   the time: no step of the frame handler on such a tick writes
   current_state. *)
WaitingStates == {"CAPTURE_DONE", "STRIP_GENERATING"}

NoAutonomousTransition ==
    [][(\/ vf.pc = "idle" /\ vf'.pc # "idle" /\ vf'.state \in WaitingStates
        \/ vf.pc # "idle" /\ vf' # vf /\ vf.state \in WaitingStates)
          => cs' = cs]_vars

NoAutonomousTransitionWitness ==
    /\ vf.pc = "L138"
    /\ vf.state = "STRIP_GENERATING"
    /\ vf.gesture = "Fist"
    /\ cs.state = "STRIP_GENERATING"
    /\ cs.capture_count = PHOTOS_PER_STRIP
    /\ cs.fist_streak = 0

(* C22 - Every state_update emitted shows as streak_progress: count_streak
   of CONSECUTIVE_REQUIRED in DETECTING_FINGERS; in AWAIT_THUMBS_UP
   whichever of thumb_up_streak and fist_streak is not zero, of
   CONSECUTIVE_REQUIRED, and None when both are zero; None in every other
   state. *)
StreakProgressShown ==
    state_update # NoUpdate =>
        /\ state_update.state = cs.state
        /\ cs.state = "DETECTING_FINGERS" =>
              state_update.streak_progress = <<cs.count_streak, 5>>
        /\ cs.state = "AWAIT_THUMBS_UP" =>
              /\ (cs.thumb_up_streak # 0 /\ cs.fist_streak = 0) =>
                    state_update.streak_progress = <<cs.thumb_up_streak, 5>>
              /\ (cs.fist_streak # 0 /\ cs.thumb_up_streak = 0) =>
                    state_update.streak_progress = <<cs.fist_streak, 5>>
              /\ (cs.fist_streak = 0 /\ cs.thumb_up_streak = 0) =>
                    state_update.streak_progress = << >>
        /\ cs.state \notin {"DETECTING_FINGERS", "AWAIT_THUMBS_UP"} =>
              state_update.streak_progress = << >>

StreakProgressShownWitness ==
    /\ state_update # NoUpdate
    /\ state_update.state = "AWAIT_THUMBS_UP"
    /\ state_update.streak_progress = <<3, 5>>
    /\ cs.fist_streak = 3
    /\ cs.thumb_up_streak = 0

(* C23 - Liveness.  With time advancing, frames arriving and the caller
   answering CAPTURE_DONE with a save_photo that carries an image, a session
   in COUNTDOWN reaches STRIP_GENERATING, a session in STRIP_GENERATING
   returns to PROMPT_TIMER with capture_count = 0, and so the session never
   stays forever in COUNTDOWN, CAPTURE_DONE or STRIP_GENERATING. *)
SessionCompletes ==
    /\ (cs.state = "COUNTDOWN") ~> (cs.state = "STRIP_GENERATING")
    /\ (cs.state = "STRIP_GENERATING") ~>
          (cs.state = "PROMPT_TIMER" /\ cs.capture_count = 0)
    /\ (cs.state = "CAPTURE_DONE") ~>
          (cs.state \in {"COUNTDOWN", "STRIP_GENERATING"})

SessionCompletesWitness ==
    /\ cs.state = "STRIP_GENERATING"
    /\ cs.capture_count = PHOTOS_PER_STRIP
    /\ Len(cs.captured_images) = PHOTOS_PER_STRIP
    /\ \E r \in BagToSet(sv) : r.pc = "L349"

(* C24 - save_photo takes effect only in CAPTURE_DONE: no handle_save_photo
   thread adds to capture_count (line 314) or sets the state to COUNTDOWN
   (line 365) while the state is PROMPT_TIMER, DETECTING_FINGERS, TIMER_SET,
   AWAIT_THUMBS_UP or COUNTDOWN. *)
SaveOnlyInCaptureDone ==
    [][\A r \in BagToSet(sv) :
          (SaveStepOf(r) /\ r.pc \in {"L314", "L365"}) =>
              cs.state \notin {"PROMPT_TIMER", "DETECTING_FINGERS",
                               "TIMER_SET", "AWAIT_THUMBS_UP", "COUNTDOWN"}]_vars

(* C25 - create_photo_strip (line 332) is called with exactly
   PHOTOS_PER_STRIP images, and not while another handle_save_photo thread
   has called it and has not yet reset the session: one call between two
   resets, also when save_photo events overlap. *)
StripOnceWithFour ==
    [][\A r \in BagToSet(sv) :
          (SaveStepOf(r) /\ r.pc = "L332") =>
              /\ Len(cs.captured_images) = PHOTOS_PER_STRIP
              /\ \A q \in BagToSet(sv) :
                    q.pc \notin {"L335", "L348", "L349"}]_vars

(* C26 - A finger-count label of detect_gesture matches the pattern of
   extended non-thumb fingers: One Finger only for index alone, Peace Sign
   only for index and middle, Three Fingers only for index, middle and
   ring, Four Fingers and Open Palm only for all four; with all four
   extended the label is Four Fingers exactly when the thumb is not
   extended and Open Palm exactly when it is; every other pattern gives no
   finger-count label. *)
ExtendedPattern ==
    <<index_extended(scen), middle_extended(scen),
      ring_extended(scen), pinky_extended(scen)>>

LabelMatchesFingers ==
    vf.pc # "idle" =>
        /\ vf.gesture = "One Finger" =>
              ExtendedPattern = <<TRUE, FALSE, FALSE, FALSE>>
        /\ vf.gesture = "Peace Sign" =>
              ExtendedPattern = <<TRUE, TRUE, FALSE, FALSE>>
        /\ vf.gesture = "Three Fingers" =>
              ExtendedPattern = <<TRUE, TRUE, TRUE, FALSE>>
        /\ vf.gesture \in {"Four Fingers", "Open Palm"} =>
              ExtendedPattern = <<TRUE, TRUE, TRUE, TRUE>>
        /\ ExtendedPattern = <<TRUE, TRUE, TRUE, TRUE>> =>
              /\ vf.gesture = "Four Fingers" <=> ~thumb_extended(scen)
              /\ vf.gesture = "Open Palm" <=> thumb_extended(scen)
        /\ ExtendedPattern \notin {<<TRUE, FALSE, FALSE, FALSE>>,
                                   <<TRUE, TRUE, FALSE, FALSE>>,
                                   <<TRUE, TRUE, TRUE, FALSE>>,
                                   <<TRUE, TRUE, TRUE, TRUE>>} =>
              vf.gesture \notin FingerGestures

LabelMatchesFingersWitness ==
    /\ vf.pc # "idle"
    /\ vf.gesture = NoneStr
    /\ ExtendedPattern = <<TRUE, FALSE, TRUE, FALSE>>
    /\ thumb_extended(scen)

(* C27 - Fed the same gestures at the same times from the fresh start, the
   main.py loop and process_state_machine agree after every frame on the
   state, timer_value, last_count, count_streak, thumb_up_streak and
   fist_streak, up to and including the frame that starts the first
   countdown. *)
VariantsAgree ==
    vf.pc = "idle" =>
        /\ scen.state = cs.state
        /\ scen.timer_value = cs.timer_value
        /\ scen.last_count = cs.last_count
        /\ scen.count_streak = cs.count_streak
        /\ scen.thumb_up_streak = cs.thumb_up_streak
        /\ scen.fist_streak = cs.fist_streak

VariantsAgreeWitness ==
    /\ vf.pc = "idle"
    /\ cs.state = "COUNTDOWN"
    /\ scen.state = "COUNTDOWN"
    /\ cs.timer_value = 3
    /\ cs.thumb_up_streak = CONSECUTIVE_REQUIRED
    /\ scen.thumb_up_streak = CONSECUTIVE_REQUIRED
    /\ scen.countdown_end = cs.countdown_end

====
